---------------------------- MODULE Spec2Model ----------------------------
(***************************************************************************)
(* Job-board backend (Express + Mongoose): account registration and login, *)
(* the protect / adminOnly middleware chain, and the job collection with   *)
(* its filtered, sorted and paginated listing.                             *)
(*                                                                         *)
(* One request is in flight at a time.  `pc` is the part of the route's    *)
(* middleware chain that still has to run: calling next() drops its head,  *)
(* sending a response empties it, next(error) replaces it by the           *)
(* process-wide error handler.                                             *)
(*                                                                         *)
(* Strings whose content the code inspects are sequences of characters or  *)
(* of words; a missing query parameter and the empty string are both <<>>  *)
(* (the code tests them with `||` and parseInt only, which treat the two   *)
(* alike).                                                                 *)
(***************************************************************************)
EXTENDS Integers, Sequences, FiniteSets, TLC

VARIABLES
    users,        \* the User collection, in insertion order
    jobs,         \* the Jobs collection, in insertion order
    nextJobId,    \* the next ObjectId the Jobs collection hands out
    now,          \* the clock (Date.now, and the clock jwt reads)
    req,          \* the request in flight
    pc,           \* the rest of its middleware chain
    res,          \* the response sent to it
    outbox,       \* the recipients transporter.sendMail delivered to, this request
    clientToken,  \* the token the last successful signin handed out
    registered,   \* history: the body submitted with each registration that returned 201
    posted,       \* history: the body and the returned job of each POST /api/jobs that
                  \* returned 201, kept until that job is next written
    parked,       \* a second request: suspended at an await, or answered, while
                  \* the event loop runs the request in `req`
    hits          \* the rate limiter's count of requests in the current window

vars ==
    <<users, jobs, nextJobId, now, req, pc, res, outbox, clientToken, registered, posted,
      parked, hits>>

---------------------------------------------------------------------------
(* Bounds *)

MaxEmails == 2
MaxJobs == 2
MaxJobIds == 3
MaxTime == 1

(* Environment configuration: JWT_EXPIRY, in clock ticks. *)
JWT_EXPIRY == 1

SECRET_KEY == "JWT_SECRET_KEY"

(* rateLimit({ windowMs, max: 100 }) *)
LIMITER_MAX == 100

---------------------------------------------------------------------------
(* Values *)

EmailPool == <<"root@x.io", "a@x.io", "b@x.io", "c@x.io">>
Emails == {EmailPool[i] : i \in 1..MaxEmails}
Passwords == {<<"pw1">>, <<"pw2">>}
Missing == <<>>

(* JSON null in a field that holds a string: no sequence of characters.    *)
Null == <<"null">>

(* !value for a string-typed field that is present: "" and null are falsy. *)
Falsy(value) == value = <<>> \/ value = Null
Salts == {"salt1", "salt2"}

Has(r, f) == f \in DOMAIN r

(* bcrypt.hash(password, SALT_ROUND): a fresh salt, and a digest of the     *)
(* password under that salt, in the "$2a$" format.                         *)
BcryptHash(password, salt) == <<"$2a$", salt, password[1]>>

(* bcrypt.compare(password, hash): rehash under the salt the hash carries. *)
BcryptCompare(password, hash) ==
    /\ Len(hash) = 3
    /\ hash[1] = "$2a$"
    /\ BcryptHash(password, hash[2]) = hash

(* jwt.sign(payload, key, {expiresIn}) *)
JwtSign(payload, key, expiresIn) ==
    [userId |-> payload.userId, email |-> payload.email,
     iat |-> now, exp |-> now + expiresIn, sig |-> key]

NoToken == [userId |-> 0, email |-> "", iat |-> 0, exp |-> 0, sig |-> "undefined"]
MalformedToken == [userId |-> 0, email |-> "", iat |-> 0, exp |-> 0, sig |-> "malformed"]

(* jwt.verify(token, key): the error it throws, "" when it returns the     *)
(* payload.                                                                *)
JwtVerifyError(token, key) ==
    IF token.sig = "undefined" THEN "jwt must be provided"
    ELSE IF token.sig = "malformed" THEN "jwt malformed"
    ELSE IF token.sig # key THEN "invalid signature"
    ELSE IF now >= token.exp THEN "jwt expired"
    ELSE ""

(* A token signed with the secret for an account that is no longer stored. *)
StaleToken ==
    [userId |-> 99, email |-> "gone@x.io", iat |-> 0, exp |-> JWT_EXPIRY, sig |-> SECRET_KEY]

(* The same payload signed with a key that is not the server's. *)
Forged(token) == [token EXCEPT !.sig = "attacker-key"]

(* userSchema *)
Roles == {"employer", "admin", "employee"}
DefaultRoleElevated == "admin"

DefaultRole == "employee"

NewUser(id, name, email, password) ==
    [_id |-> id, name |-> name, email |-> email, password |-> password, role |-> DefaultRole]

(* An admin account the store holds before the process starts. *)
SeededAdmin ==
    [_id |-> 1, name |-> "root", email |-> "root@x.io",
     password |-> BcryptHash(<<"pw1">>, "salt1"), role |-> "admin"]

(* An employee account the store holds before the process starts. *)
SeededEmployee ==
    [_id |-> 2, name |-> "emp", email |-> "a@x.io",
     password |-> BcryptHash(<<"pw1">>, "salt2"), role |-> "employee"]

(* .select("-password") *)
SelectWithoutPassword(u) == [f \in DOMAIN u \ {"password"} |-> u[f]]

(* User.findOne({email}) / User.findById(id): the matching documents. *)
FindByEmail(email) == {i \in 1..Len(users) : users[i].email = email}
FindById(id) == {i \in 1..Len(users) : users[i]._id = id}

NoUser == [_id |-> 0]
NoRes == [status |-> 0, by |-> "", body |-> [none |-> TRUE]]
EmptyObject == [f \in {} |-> 0]
NoAuth == [scheme |-> "", token |-> NoToken]
NoQuery == [location |-> "", search |-> <<>>, sort |-> <<>>, page |-> <<>>, limit |-> <<>>]
NoReq ==
    [route |-> "", auth |-> NoAuth, body |-> EmptyObject, query |-> NoQuery, id |-> 0,
     user |-> NoUser, error |-> ""]

(* No second request. *)
NoTask == [req |-> NoReq, pc |-> <<>>, res |-> NoRes, outbox |-> <<>>]

---------------------------------------------------------------------------
(* Routing: routes/index mounts userRoute, then protect, then jobRoute.    *)

GetUsersChainGateFirst == <<"adminOnly", "protect", "getUsers">>

(* router.get("/users", protect, adminOnly, getUsers) *)
GetUsersChain == <<"protect", "adminOnly", "getUsers">>

Chain(route) ==
    CASE route = "GET /api/users" -> GetUsersChain
      [] route = "POST /api/users" -> <<"postUsers">>
      [] route = "POST /api/users/signin" -> <<"signin">>
      [] route = "GET /api/jobs" -> <<"protect", "getAllJob">>
      [] route = "GET /api/jobs/:id" -> <<"protect", "fetchSingleJob">>
      [] route = "PUT /api/jobs/:id" -> <<"protect", "updateJob">>
      [] route = "DELETE /api/jobs/:id" -> <<"protect", "deleteJob">>
      [] route = "POST /api/jobs" -> <<"protect", "validateJobData", "postJob">>

(* The Authorization headers a client sends: none, another scheme, the     *)
(* bare word, a word that only starts with Bearer, and Bearer with a token.*)
AuthHeaders ==
    {NoAuth,
     [scheme |-> "Basic", token |-> clientToken],
     [scheme |-> "Bearer", token |-> NoToken],
     [scheme |-> "BearerX", token |-> clientToken]}
    \cup {[scheme |-> "Bearer", token |-> t] :
            t \in {clientToken, Forged(clientToken), StaleToken, MalformedToken}}

(* authHeader.startsWith("Bearer") *)
StartsWithBearer(auth) == auth.scheme \in {"Bearer", "BearerX"}

RespondAndCallNext(status, by, body) ==
    /\ res' = [status |-> status, by |-> by, body |-> body]
    /\ pc' = Tail(pc)

Respond(status, by, body) ==
    /\ res' = [status |-> status, by |-> by, body |-> body]
    /\ pc' = <<>>

CallNext == pc' = Tail(pc) /\ UNCHANGED res

(* next(error) *)
CallNextError(message) ==
    /\ pc' = <<"errorHandler">>
    /\ req' = [req EXCEPT !.error = message]
    /\ UNCHANGED res

(* An async handler without try/catch rejects: the router either hands the *)
(* error to next (Express 5) or never learns of it (Express 4), and then   *)
(* the request is left without a response.                                 *)
UnhandledRejection(message) ==
    /\ req' = [req EXCEPT !.error = message]
    /\ pc' \in {<<"errorHandler">>, <<>>}
    /\ UNCHANGED res

Running(handler) == pc # <<>> /\ Head(pc) = handler


---------------------------------------------------------------------------
(* Requests *)

Receive(route, auth, body, id) ==
    /\ pc = <<>>
    /\ req' = [route |-> route, auth |-> auth, body |-> body, query |-> NoQuery, id |-> id,
               user |-> NoUser, error |-> ""]
    /\ pc' = Chain(route)
    /\ res' = NoRes
    /\ outbox' = <<>>
    /\ UNCHANGED <<users, jobs, nextJobId, now, clientToken, registered, posted, parked, hits>>

CredentialBodies ==
    {[name |-> "n", email |-> e, password |-> p] : e \in Emails, p \in Passwords \cup {Missing}}

(* Bodies of POST /api/users: the credentials, with or without a role.     *)
RegisterBodies ==
    CredentialBodies
    \cup {[name |-> b.name, email |-> b.email, password |-> b.password, role |-> "admin"] :
            b \in CredentialBodies}

ReceiveRegister == \E body \in RegisterBodies : Receive("POST /api/users", NoAuth, body, 0)

(* POST /api/users with a body of name, email and password alone. *)
ReceiveRegisterCredentials ==
    \E body \in CredentialBodies : Receive("POST /api/users", NoAuth, body, 0)

ReceiveSignin == \E body \in CredentialBodies : Receive("POST /api/users/signin", NoAuth, body, 0)

ReceiveGetUsers == \E auth \in AuthHeaders : Receive("GET /api/users", auth, EmptyObject, 0)

Tick ==
    /\ now < MaxTime
    /\ now' = now + 1
    /\ UNCHANGED <<users, jobs, nextJobId, req, pc, res, outbox, clientToken, registered, posted, parked, hits>>

---------------------------------------------------------------------------
(* index.js: the middleware in front of the routes *)

(* app.use(limiter) comes before app.use("/api", routes). *)
AppChain(route) == <<"limiter">> \o Chain(route)

(* A request as the application receives it, the limiter first. *)
ReceiveApp(route, auth, body, id) ==
    /\ pc = <<>>
    /\ req' = [route |-> route, auth |-> auth, body |-> body, query |-> NoQuery, id |-> id,
               user |-> NoUser, error |-> ""]
    /\ pc' = AppChain(route)
    /\ res' = NoRes
    /\ outbox' = <<>>
    /\ UNCHANGED <<users, jobs, nextJobId, now, clientToken, registered, posted, parked, hits>>

ReceiveAppSignin ==
    \E body \in CredentialBodies : ReceiveApp("POST /api/users/signin", NoAuth, body, 0)

LimiterBlocksNever(count) == FALSE

(* The limiter turns a request away when the client's count in the window *)
(* exceeds max.                                                            *)
LimiterBlocks(count) == count > LIMITER_MAX

(* express-rate-limit: count the request, then answer 429 or call next.    *)
(* The count is kept up to max + 1; beyond that it decides nothing new.    *)
limiter ==
    /\ Running("limiter")
    /\ hits' = IF hits > LIMITER_MAX THEN hits ELSE hits + 1
    /\ IF LimiterBlocks(hits + 1)
       THEN Respond(429, "limiter", [message |-> "Too many requests, please try again later."])
       ELSE CallNext
    /\ UNCHANGED <<users, jobs, nextJobId, now, req, outbox, clientToken, registered, posted, parked>>

(* windowMs has passed since the window began: the count starts again.     *)
WindowExpires ==
    /\ hits > 0
    /\ hits' = 0
    /\ UNCHANGED <<users, jobs, nextJobId, now, req, pc, res, outbox, clientToken, registered,
                   posted, parked>>

(* The event loop: the request in `req` is suspended at an await, or has   *)
(* been answered, and the other request gets its turn.                     *)
Switch ==
    /\ req.route # "" \/ parked.req.route # ""
    /\ parked' = [req |-> req, pc |-> pc, res |-> res, outbox |-> outbox]
    /\ req' = parked.req
    /\ pc' = parked.pc
    /\ res' = parked.res
    /\ outbox' = parked.outbox
    /\ UNCHANGED <<users, jobs, nextJobId, now, clientToken, registered, posted, hits>>

---------------------------------------------------------------------------
(* middleware/authMiddleware.js *)

ProtectOutcomeNotFound404(authHeader) ==
    LET token == authHeader.token
        error == JwtVerifyError(token, SECRET_KEY)
        found == FindById(token.userId)
    IN  IF authHeader.scheme = "" \/ ~StartsWithBearer(authHeader)
        THEN [pass |-> FALSE, status |-> 401, user |-> NoUser,
              body |-> [message |-> "Unauthorized. Not A Valid Token"]]
        ELSE IF error # ""
        THEN [pass |-> FALSE, status |-> 401, user |-> NoUser,
              body |-> [message |-> "No token found", error |-> error]]
        ELSE IF found = {}
        THEN [pass |-> FALSE, status |-> 404, user |-> NoUser,
              body |-> [message |-> "User not found"]]
        ELSE [pass |-> TRUE, status |-> 0, body |-> EmptyObject,
              user |-> SelectWithoutPassword(users[CHOOSE i \in found : TRUE])]

(* What protect does with an Authorization header: the 401 it sends, or    *)
(* the account it attaches to the request before calling next.             *)
ProtectOutcome(authHeader) ==
    LET token == authHeader.token
        error == JwtVerifyError(token, SECRET_KEY)
        found == FindById(token.userId)
    IN  IF authHeader.scheme = "" \/ ~StartsWithBearer(authHeader)
        THEN [pass |-> FALSE, status |-> 401, user |-> NoUser,
              body |-> [message |-> "Unauthorized. Not A Valid Token"]]
        ELSE IF error # ""
        THEN [pass |-> FALSE, status |-> 401, user |-> NoUser,
              body |-> [message |-> "No token found", error |-> error]]
        ELSE IF found = {}
        THEN [pass |-> FALSE, status |-> 401, user |-> NoUser,
              body |-> [message |-> "User not found"]]
        ELSE [pass |-> TRUE, status |-> 0, body |-> EmptyObject,
              user |-> SelectWithoutPassword(users[CHOOSE i \in found : TRUE])]

protect ==
    /\ Running("protect")
    /\ LET out == ProtectOutcome(req.auth)
       IN  IF out.pass
           THEN req' = [req EXCEPT !.user = out.user] /\ CallNext
           ELSE Respond(out.status, "protect", out.body) /\ UNCHANGED req
    /\ UNCHANGED <<users, jobs, nextJobId, now, outbox, clientToken, registered, posted, parked, hits>>

(* req.user && req.user.role === "admin" *)
IsAdminUser(user) == user # NoUser /\ user.role = "admin"

adminOnly ==
    /\ Running("adminOnly")
    /\ IF IsAdminUser(req.user)
       THEN CallNext
       ELSE Respond(403, "adminOnly", [message |-> "Admin only Route"])
    /\ UNCHANGED <<users, jobs, nextJobId, now, req, outbox, clientToken, registered, posted, parked, hits>>

---------------------------------------------------------------------------
(* controllers/userController.js *)

StoredPasswordPlain(password, salt) == password

(* The password postUsers puts in the new document. *)
StoredPassword(password, salt) == BcryptHash(password, salt)

EmailTakenNever(email) == FALSE

(* exitingUser: User.findOne({email}) found a document. *)
EmailTaken(email) == FindByEmail(email) # {}

postUsers ==
    /\ Running("postUsers")
    /\ LET name == req.body.name
           email == req.body.email
           password == req.body.password
       IN  IF EmailTaken(email)
           THEN /\ Respond(400, "postUsers", [message |-> "User already exist with this email."])
                /\ UNCHANGED <<users, registered, req>>
           ELSE IF password = Missing
           THEN /\ CallNextError("Illegal arguments: undefined, number")
                /\ UNCHANGED <<users, registered>>
           ELSE \E salt \in Salts :
                /\ users' = Append(users,
                        NewUser(Len(users) + 1, name, email, StoredPassword(password, salt)))
                /\ registered' = Append(registered,
                        [_id |-> Len(users) + 1, email |-> email, password |-> password,
                         body |-> req.body])
                /\ Respond(201, "postUsers", [message |-> "User registered successfully"])
                /\ UNCHANGED req
    /\ UNCHANGED <<jobs, nextJobId, now, outbox, clientToken, posted, parked, hits>>

(* postUsers up to its first await: the lookup of the email is done, the   *)
(* password is being hashed and nothing is saved yet.                      *)
postUsersFindOne ==
    /\ Running("postUsers")
    /\ IF EmailTaken(req.body.email)
       THEN /\ Respond(400, "postUsers", [message |-> "User already exist with this email."])
            /\ UNCHANGED req
       ELSE IF req.body.password = Missing
       THEN CallNextError("Illegal arguments: undefined, number")
       ELSE /\ pc' = <<"postUsers.save">>
            /\ UNCHANGED <<req, res>>
    /\ UNCHANGED <<users, jobs, nextJobId, now, outbox, clientToken, registered, posted, parked, hits>>

(* postUsers after the hash: user.save() and the 201. *)
postUsersSave ==
    /\ Running("postUsers.save")
    /\ \E salt \in Salts :
        users' = Append(users,
                    NewUser(Len(users) + 1, req.body.name, req.body.email,
                            StoredPassword(req.body.password, salt)))
    /\ registered' = Append(registered,
            [_id |-> Len(users) + 1, email |-> req.body.email, password |-> req.body.password,
             body |-> req.body])
    /\ Respond(201, "postUsers", [message |-> "User registered successfully"])
    /\ UNCHANGED <<jobs, nextJobId, now, req, outbox, clientToken, posted, parked, hits>>

SigninPayloadNameForEmail(user) == [userId |-> user._id, email |-> user.name]

(* The payload signin signs. *)
SigninPayload(user) == [userId |-> user._id, email |-> user.email]

(* What signin answers to a body: the response, or the error it hands to   *)
(* next.                                                                   *)
SigninOutcome(body) ==
    LET found == FindByEmail(body.email)
        user == users[CHOOSE i \in found : \A j \in found : i <= j]
    IN  IF found = {}
        THEN [threw |-> FALSE, status |-> 400, body |-> [message |-> "Invalid Credentials"]]
        ELSE IF body.password = Missing
        THEN [threw |-> TRUE, status |-> 500,
              body |-> [error |-> "Illegal arguments: undefined, string"]]
        ELSE IF ~BcryptCompare(body.password, user.password)
        THEN [threw |-> FALSE, status |-> 400, body |-> [message |-> "Invalid Password"]]
        ELSE [threw |-> FALSE, status |-> 200,
              body |-> [token |-> JwtSign(SigninPayload(user), SECRET_KEY, JWT_EXPIRY),
                        message |-> "Login Successful"]]

signin ==
    /\ Running("signin")
    /\ LET out == SigninOutcome(req.body)
       IN  IF out.threw
           THEN CallNextError(out.body.error) /\ UNCHANGED clientToken
           ELSE /\ Respond(out.status, "signin", out.body)
                /\ clientToken' = IF out.status = 200 THEN out.body.token ELSE clientToken
                /\ UNCHANGED req
    /\ UNCHANGED <<users, jobs, nextJobId, now, outbox, registered, posted, parked, hits>>

(* User.find() as getUsers passes it to res.json. *)
GetUsersDocument(u) == u

getUsers ==
    /\ Running("getUsers")
    /\ Respond(200, "getUsers", [array |-> [i \in 1..Len(users) |-> GetUsersDocument(users[i])]])
    /\ UNCHANGED <<users, jobs, nextJobId, now, req, outbox, clientToken, registered, posted, parked, hits>>

---------------------------------------------------------------------------
(* Strings the job listing inspects *)

Digits == <<"0", "1", "2", "3", "4", "5", "6", "7", "8", "9">>
IsDigit(c) == \E d \in 1..10 : Digits[d] = c
DigitValue(c) == (CHOOSE d \in 1..10 : Digits[d] = c) - 1

RECURSIVE LeadingDigits(_, _)
(* The value of the digits s starts with, after the value acc read so far. *)
LeadingDigits(s, acc) ==
    IF s = <<>> \/ ~IsDigit(Head(s)) THEN acc
    ELSE LeadingDigits(Tail(s), 10 * acc + DigitValue(Head(s)))

(* parseInt(s): an optional sign, then the digits the string starts with;  *)
(* NaN when there is none.                                                 *)
ParseInt(s) ==
    LET signed == s # <<>> /\ Head(s) \in {"-", "+"}
        digits == IF signed THEN Tail(s) ELSE s
        magnitude == LeadingDigits(digits, 0)
    IN  IF digits = <<>> \/ ~IsDigit(Head(digits))
        THEN [isNaN |-> TRUE, n |-> 0]
        ELSE [isNaN |-> FALSE, n |-> IF signed /\ Head(s) = "-" THEN -magnitude ELSE magnitude]

(* parseInt(s) || d: NaN and 0 are falsy. *)
ParseIntOr(s, d) == LET p == ParseInt(s) IN IF p.isNaN \/ p.n = 0 THEN d ELSE p.n

Lower(c) ==
    CASE c = "D" -> "d"
      [] c = "E" -> "e"
      [] c = "V" -> "v"
      [] c = "O" -> "o"
      [] OTHER -> c

(* A pattern MongoDB's $regex rejects: an unclosed group. *)
RegexInvalid(pattern) == \E k \in 1..Len(pattern) : pattern[k] = "("

(* One pattern character against one character, with $options "i". *)
RegexCharMatches(p, c) == p = "." \/ Lower(p) = Lower(c)

(* { $regex: pattern, $options: "i" } on a string: the pattern matches     *)
(* somewhere in it.                                                        *)
RegexMatches(pattern, text) ==
    \E start \in 0..(Len(text) - Len(pattern)) :
        \A k \in 1..Len(pattern) : RegexCharMatches(pattern[k], text[start + k])

---------------------------------------------------------------------------
(* models/Jobs.js and the queries on it *)

OptionalJobFields == {"company", "location", "salary"}
JobFields == {"title", "createdAt"} \cup OptionalJobFields

CreateJobWithoutSalary(id, body) ==
    [f \in {"_id", "createdAt"} \cup (DOMAIN body \cap (JobFields \ {"salary"})) |->
        IF f = "_id" THEN id
        ELSE IF f \in DOMAIN body THEN body[f]
        ELSE now]

(* Jobs.create(body): the schema's fields of the body, _id, and createdAt  *)
(* defaulting to Date.now.                                                 *)
CreateJob(id, body) ==
    [f \in {"_id", "createdAt"} \cup (DOMAIN body \cap JobFields) |->
        IF f = "_id" THEN id
        ELSE IF f \in DOMAIN body THEN body[f]
        ELSE now]

MergeJobKeepStored(job, body) ==
    [f \in DOMAIN job \cup (DOMAIN body \cap JobFields) |->
        IF f \in DOMAIN job THEN job[f] ELSE body[f]]

(* findByIdAndUpdate(id, body, {new: true}): $set of the schema's fields   *)
(* of the body.                                                            *)
MergeJob(job, body) ==
    [f \in DOMAIN job \cup (DOMAIN body \cap JobFields) |->
        IF f \in DOMAIN body \cap JobFields THEN body[f] ELSE job[f]]

JobsById(id) == {i \in 1..Len(jobs) : jobs[i]._id = id}

RemoveAt(s, i) == [k \in 1..(Len(s) - 1) |-> IF k < i THEN s[k] ELSE s[k + 1]]

(* The filter getAllJob hands to Jobs.find. *)
ListFilterMatches(query, job) ==
    /\ query.location # "" => (Has(job, "location") /\ job.location = query.location)
    /\ Has(job, "title")
    /\ job.title # Null
    /\ RegexMatches(query.search, job.title)

(* The filter getAllJob hands to Jobs.countDocuments: none. *)
CountFilterMatches(query, job) == TRUE

(* .sort(sortBy): a leading "-" sorts descending; a missing field sorts    *)
(* before every value.                                                     *)
SortDescending(sortBy) == Head(sortBy) = "-"
SortField(sortBy) == IF SortDescending(sortBy) THEN sortBy[2] ELSE sortBy[1]
SortKey(job, field) == IF Has(job, field) THEN <<1, job[field]>> ELSE <<0, 0>>
KeyLeq(a, b) == a[1] < b[1] \/ (a[1] = b[1] /\ a[2] <= b[2])

InSortOrder(a, b, sortBy) ==
    LET ka == SortKey(a, SortField(sortBy))
        kb == SortKey(b, SortField(sortBy))
    IN  IF SortDescending(sortBy) THEN KeyLeq(kb, ka) ELSE KeyLeq(ka, kb)

(* The orders in which the store may return the documents at the indices   *)
(* S under the sort: documents with equal keys come in any order.          *)
SortedOrders(S, sortBy) ==
    LET n == Cardinality(S)
    IN  {order \in [1..n -> S] :
            /\ \A a, b \in 1..n : a # b => order[a] # order[b]
            /\ \A a \in 1..(n - 1) : InSortOrder(jobs[order[a]], jobs[order[a + 1]], sortBy)}

Min(a, b) == IF a <= b THEN a ELSE b
Abs(n) == IF n < 0 THEN -n ELSE n

(* .skip(skip).limit(limit) on a result: a negative limit is taken as its  *)
(* absolute value.                                                         *)
SkipLimit(result, skip, limit) == SubSeq(result, skip + 1, Min(Len(result), skip + Abs(limit)))

---------------------------------------------------------------------------
(* Job requests *)

TitleDev == <<"D", "e", "v">>
TitleOps == <<"o", "p", "s">>

(* Bodies of POST /api/jobs. *)
PostJobBodies ==
    {[title |-> TitleDev, company |-> "Acme", location |-> "Remote", salary |-> 5],
     [title |-> TitleOps, company |-> "Init", createdAt |-> 0],
     [title |-> TitleDev, company |-> "Acme", location |-> "Pune", salary |-> 9],
     [title |-> TitleDev],
     [company |-> "Acme"]}

(* Bodies of PUT /api/jobs/:id. *)
UpdateJobBodies ==
    {[salary |-> 7],
     [title |-> <<>>],
     [title |-> Null],
     [createdAt |-> 5]}

JobIds == 1..MaxJobIds

(* An :id that is no ObjectId, such as "abc": Mongoose cannot cast it.     *)
MalformedId == -1
CastError == "Cast to ObjectId failed"

(* The :id of a request: the id of a job, stored now or not, or no id.     *)
RequestIds == JobIds \cup {MalformedId}

LocationInputs == {"", "Remote"}
SearchInputs == {<<>>, <<"d">>, <<".">>, <<"(">>}
SortInputs == {<<>>, <<"salary">>, <<"-", "salary">>}
PageInputs == {<<>>, <<"0">>, <<"2">>, <<"-", "1">>, <<"2", "x">>}
LimitInputs == {<<>>, <<"1">>, <<"-", "1">>}

(* The query strings: every filter with every sort on the first page, and  *)
(* every page and limit with every sort on the unfiltered collection.      *)
Queries ==
    [location : LocationInputs, search : SearchInputs, sort : SortInputs,
     page : {<<>>}, limit : {<<>>, <<"1">>}]
    \cup [location : {""}, search : {<<>>}, sort : SortInputs,
          page : PageInputs, limit : LimitInputs]

(* The Authorization headers sent to the job routes. *)
JobAuthHeaders == {NoAuth, [scheme |-> "Bearer", token |-> clientToken]}

ReceivePostJob ==
    /\ Len(jobs) < MaxJobs
    /\ nextJobId <= MaxJobIds
    /\ \E auth \in JobAuthHeaders, body \in PostJobBodies : Receive("POST /api/jobs", auth, body, 0)

ReceiveGetAllJob == \E auth \in JobAuthHeaders : Receive("GET /api/jobs", auth, EmptyObject, 0)

ReceiveFetchSingleJob ==
    \E auth \in JobAuthHeaders, id \in RequestIds :
        Receive("GET /api/jobs/:id", auth, EmptyObject, id)

ReceiveUpdateJob ==
    \E auth \in JobAuthHeaders, id \in RequestIds, body \in UpdateJobBodies :
        Receive("PUT /api/jobs/:id", auth, body, id)

ReceiveDeleteJob ==
    \E auth \in JobAuthHeaders, id \in RequestIds :
        Receive("DELETE /api/jobs/:id", auth, EmptyObject, id)

---------------------------------------------------------------------------
(* middleware/jobMiddleware.js *)

validateJobData ==
    /\ Running("validateJobData")
    /\ IF \/ ~Has(req.body, "title") \/ Falsy(req.body.title)
          \/ ~Has(req.body, "company") \/ req.body.company = ""
       THEN Respond(400, "validateJobData", [message |-> "Title or company name is missing"])
       ELSE CallNext
    /\ UNCHANGED <<users, jobs, nextJobId, now, req, outbox, clientToken, registered, posted, parked, hits>>

---------------------------------------------------------------------------
(* controllers/jobController.js *)

EmployeesEveryAccount == users

(* User.find({ role: "employee" }) *)
Employees == SelectSeq(users, LAMBDA u : u.role = "employee")

(* The template with its placeholders replaced. *)
RenderEmail(job) ==
    [title |-> job.title,
     company |-> IF Has(job, "company") THEN job.company ELSE "Not specified",
     location |-> IF Has(job, "location") THEN job.location ELSE "Remote / Not specified",
     createdAt |-> job.createdAt,
     salary |-> IF Has(job, "salary") /\ job.salary # 0
                THEN <<"Rs", job.salary>>
                ELSE <<"Not disclosed">>]

MailOptions(employee, job) ==
    [to |-> employee.email, subject |-> "new job opportunity", html |-> RenderEmail(job)]

SentMailsDetached(employees, job) ==
    {SelectSeq([k \in 1..Len(employees) |-> MailOptions(employees[k], job)],
               LAMBDA m : m.to \notin failed) :
        failed \in SUBSET {employees[k].email : k \in 1..Len(employees)}}

(* for (let employee of employees) { await transporter.sendMail(...) }:    *)
(* the mails delivered when the loop ends, by running out of recipients or *)
(* by the first sendMail that rejects.                                     *)
SentMails(employees, job) ==
    {[k \in 1..delivered |-> MailOptions(employees[k], job)] : delivered \in 0..Len(employees)}

(* The job is stored first; the mails go out one after the other, and the  *)
(* first sendMail that rejects ends the loop in the catch block.           *)
postJob ==
    /\ Running("postJob")
    /\ LET job == CreateJob(nextJobId, req.body)
           employees == Employees
       IN  IF ~Has(req.body, "title") \/ Falsy(req.body.title)
           THEN /\ Respond(400, "postJob", [error |-> "Jobs validation failed: title"])
                /\ UNCHANGED <<jobs, nextJobId, outbox, posted>>
           ELSE /\ jobs' = Append(jobs, job)
                /\ nextJobId' = nextJobId + 1
                /\ \E sent \in SentMails(employees, job) :
                     /\ outbox' = sent
                     /\ IF Len(sent) = Len(employees)
                        THEN /\ Respond(201, "postJob", job)
                             /\ posted' = Append(posted,
                                    [_id |-> job._id, body |-> req.body, job |-> job])
                        ELSE /\ Respond(400, "postJob", [error |-> "sendMail failed"])
                             /\ UNCHANGED posted
    /\ UNCHANGED <<users, now, req, clientToken, registered, parked, hits>>

(* page, limit and skip as getAllJob computes them. *)
ListPage(query) == ParseIntOr(query.page, 1)
ListLimit(query) == ParseIntOr(query.limit, 3)

ListSkipFromPage(query) == ListPage(query) * ListLimit(query)

ListSkip(query) == (ListPage(query) - 1) * ListLimit(query)
ListSortBy(query) == IF query.sort = <<>> THEN <<"-", "createdAt">> ELSE query.sort

(* The query string belongs to the request; nothing reads it before        *)
(* getAllJob does, so it is drawn here.                                    *)
getAllJob ==
    /\ Running("getAllJob")
    /\ \E query \in Queries :
        LET matching == {i \in 1..Len(jobs) : ListFilterMatches(query, jobs[i])}
            skip == ListSkip(query)
            limit == ListLimit(query)
            totalJobs == Cardinality({i \in 1..Len(jobs) : CountFilterMatches(query, jobs[i])})
        IN  IF RegexInvalid(query.search)
            THEN /\ pc' = <<"errorHandler">>
                 /\ req' = [req EXCEPT !.query = query,
                                       !.error = "Regular expression is invalid"]
                 /\ UNCHANGED res
            ELSE IF skip < 0
            THEN /\ pc' = <<"errorHandler">>
                 /\ req' = [req EXCEPT !.query = query,
                                       !.error = "skip value must be non-negative"]
                 /\ UNCHANGED res
            ELSE \E order \in SortedOrders(matching, ListSortBy(query)) :
                 /\ req' = [req EXCEPT !.query = query]
                 /\ Respond(200, "getAllJob",
                        [success |-> TRUE, total |-> totalJobs, page |-> ListPage(query),
                         limit |-> limit, skip |-> skip,
                         data |-> SkipLimit([k \in 1..Len(order) |-> jobs[order[k]]],
                                            skip, limit)])
    /\ UNCHANGED <<users, jobs, nextJobId, now, outbox, clientToken, registered, posted, parked, hits>>

fetchSingleJob ==
    /\ Running("fetchSingleJob")
    /\ LET found == JobsById(req.id)
       IN  IF req.id = MalformedId
           THEN UnhandledRejection(CastError)
           ELSE /\ IF found = {}
                   THEN Respond(404, "fetchSingleJob", [error |-> "Job not found"])
                   ELSE Respond(200, "fetchSingleJob", jobs[CHOOSE i \in found : TRUE])
                /\ UNCHANGED req
    /\ UNCHANGED <<users, jobs, nextJobId, now, outbox, clientToken, registered, posted, parked, hits>>

updateJob ==
    /\ Running("updateJob")
    /\ LET found == JobsById(req.id)
       IN  IF req.id = MalformedId
           THEN /\ UnhandledRejection(CastError)
                /\ UNCHANGED <<jobs, posted>>
           ELSE IF found = {}
           THEN /\ Respond(404, "updateJob", [error |-> "Job not found"])
                /\ UNCHANGED <<jobs, posted, req>>
           ELSE LET i == CHOOSE i \in found : TRUE
                    job == MergeJob(jobs[i], req.body)
                IN  /\ jobs' = [jobs EXCEPT ![i] = job]
                    /\ posted' = SelectSeq(posted, LAMBDA e : e._id # req.id)
                    /\ Respond(200, "updateJob", job)
                    /\ UNCHANGED req
    /\ UNCHANGED <<users, nextJobId, now, outbox, clientToken, registered, parked, hits>>

deleteJob ==
    /\ Running("deleteJob")
    /\ LET found == JobsById(req.id)
       IN  IF req.id = MalformedId
           THEN /\ CallNextError(CastError)
                /\ UNCHANGED <<jobs, posted>>
           ELSE IF found = {}
           THEN /\ Respond(404, "deleteJob", [error |-> "Job not found"])
                /\ UNCHANGED <<jobs, posted, req>>
           ELSE /\ jobs' = RemoveAt(jobs, CHOOSE i \in found : TRUE)
                /\ posted' = SelectSeq(posted, LAMBDA e : e._id # req.id)
                /\ Respond(200, "deleteJob", [message |-> "Job Deleted"])
                /\ UNCHANGED req
    /\ UNCHANGED <<users, nextJobId, now, outbox, clientToken, registered, parked, hits>>

---------------------------------------------------------------------------
(* index.js: the error handler registered last. *)

errorHandler ==
    /\ Running("errorHandler")
    /\ Respond(500, "errorHandler", [error |-> req.error])
    /\ UNCHANGED <<users, jobs, nextJobId, now, req, outbox, clientToken, registered, posted, parked, hits>>

(* A call into the store fails (the connection is lost) in the handler     *)
(* whose turn it is: postUsers, signin, getAllJob and deleteJob hand the   *)
(* error to next in their catch block; getUsers, fetchSingleJob and        *)
(* updateJob have none; protect and postJob answer it themselves.          *)
StoreError == "store unavailable"

StoreFault ==
    /\ pc # <<>>
    /\ LET handler == Head(pc)
       IN  CASE handler \in {"postUsers", "signin", "getAllJob", "deleteJob"} ->
                    CallNextError(StoreError)
             [] handler \in {"getUsers", "fetchSingleJob", "updateJob"} ->
                    UnhandledRejection(StoreError)
             [] handler = "protect" ->
                    /\ req.auth.scheme # ""
                    /\ StartsWithBearer(req.auth)
                    /\ JwtVerifyError(req.auth.token, SECRET_KEY) = ""
                    /\ Respond(401, "protect", [message |-> "No token found", error |-> StoreError])
                    /\ UNCHANGED req
             [] handler = "postJob" ->
                    /\ Respond(400, "postJob", [error |-> StoreError])
                    /\ UNCHANGED req
             [] OTHER -> FALSE
    /\ UNCHANGED <<users, jobs, nextJobId, now, outbox, clientToken, registered, posted, parked, hits>>

---------------------------------------------------------------------------

InitialUsers == {<<>>, <<SeededAdmin>>, <<SeededAdmin, SeededEmployee>>}

Init ==
    /\ users \in InitialUsers
    /\ registered = <<>>
    /\ posted = <<>>
    /\ parked = NoTask
    /\ hits = 0
    /\ jobs = <<>>
    /\ nextJobId = 1
    /\ now = 0
    /\ req = NoReq
    /\ pc = <<>>
    /\ res = NoRes
    /\ outbox = <<>>
    /\ clientToken = MalformedToken

NextAuth ==
    \/ Tick
    \/ ReceiveRegister
    \/ ReceiveSignin
    \/ ReceiveGetUsers
    \/ protect
    \/ adminOnly
    \/ postUsers
    \/ signin
    \/ getUsers
    \/ errorHandler

SpecAuth == Init /\ [][NextAuth]_vars

(* Login, job creation and the job listing. *)
NextJobs ==
    \/ Tick
    \/ ReceiveSignin
    \/ ReceivePostJob
    \/ ReceiveGetAllJob
    \/ protect
    \/ validateJobData
    \/ signin
    \/ postJob
    \/ getAllJob
    \/ errorHandler

SpecJobs == Init /\ [][NextJobs]_vars

(* A store seeded with the admin account alone. *)
InitStore == Init /\ users = <<SeededAdmin>>

(* Login and the job collection: create, read, update and delete. *)
NextStore ==
    \/ ReceiveSignin
    \/ ReceivePostJob
    \/ ReceiveFetchSingleJob
    \/ ReceiveUpdateJob
    \/ ReceiveDeleteJob
    \/ protect
    \/ validateJobData
    \/ signin
    \/ postJob
    \/ fetchSingleJob
    \/ updateJob
    \/ deleteJob
    \/ errorHandler

SpecStore == InitStore /\ [][NextStore]_vars

(* Login, job creation and update, and the job listing. *)
NextEdited ==
    \/ ReceiveSignin
    \/ ReceivePostJob
    \/ ReceiveUpdateJob
    \/ ReceiveGetAllJob
    \/ protect
    \/ validateJobData
    \/ signin
    \/ postJob
    \/ updateJob
    \/ getAllJob
    \/ errorHandler

SpecEdited == InitStore /\ [][NextEdited]_vars

(* A job the store holds before the process starts. *)
SeededJob == [_id |-> 1, title |-> TitleDev, company |-> "Acme", createdAt |-> 0]

(* A store seeded with the admin account and one job, and a client that    *)
(* holds the admin's token.                                                *)
InitRace ==
    /\ users = <<SeededAdmin>>
    /\ registered = <<>>
    /\ posted = <<>>
    /\ parked = NoTask
    /\ hits = 0
    /\ jobs = <<SeededJob>>
    /\ nextJobId = 2
    /\ now = 0
    /\ req = NoReq
    /\ pc = <<>>
    /\ res = NoRes
    /\ outbox = <<>>
    /\ clientToken = JwtSign(SigninPayload(SeededAdmin), SECRET_KEY, JWT_EXPIRY)

(* Two requests in flight that update or delete a job. *)
NextRace ==
    \/ ReceiveUpdateJob
    \/ ReceiveDeleteJob
    \/ protect
    \/ updateJob
    \/ deleteJob
    \/ errorHandler
    \/ Switch

SpecRace == InitRace /\ [][NextRace]_vars

(* Two registrations in flight. *)
NextRegistrations ==
    \/ ReceiveRegisterCredentials
    \/ postUsersFindOne
    \/ postUsersSave
    \/ errorHandler
    \/ Switch

SpecRegistrations == Init /\ [][NextRegistrations]_vars

(* The guarded chains: login, the account listing behind protect and      *)
(* adminOnly, and job creation behind protect and validateJobData.         *)
NextChains ==
    \/ ReceiveSignin
    \/ ReceiveGetUsers
    \/ ReceivePostJob
    \/ protect
    \/ adminOnly
    \/ validateJobData
    \/ signin
    \/ getUsers
    \/ postJob
    \/ errorHandler

SpecChains == Init /\ [][NextChains]_vars

(* A second employee account the store holds before the process starts.  *)
SecondEmployee ==
    [_id |-> 3, name |-> "emp2", email |-> "b@x.io",
     password |-> BcryptHash(<<"pw2">>, "salt1"), role |-> "employee"]

(* A store seeded with the admin and two employees. *)
InitMail ==
    /\ users = <<SeededAdmin, SeededEmployee, SecondEmployee>>
    /\ registered = <<>>
    /\ posted = <<>>
    /\ parked = NoTask
    /\ hits = 0
    /\ jobs = <<>>
    /\ nextJobId = 1
    /\ now = 0
    /\ req = NoReq
    /\ pc = <<>>
    /\ res = NoRes
    /\ outbox = <<>>
    /\ clientToken = MalformedToken

(* Login and job creation with its notification mails. *)
NextMail ==
    \/ ReceiveSignin
    \/ ReceivePostJob
    \/ protect
    \/ validateJobData
    \/ signin
    \/ postJob
    \/ errorHandler

SpecMail == InitMail /\ [][NextMail]_vars

(* Logins behind the rate limiter. *)
NextLimiter ==
    \/ ReceiveAppSignin
    \/ limiter
    \/ signin
    \/ errorHandler
    \/ WindowExpires

SpecLimiter == InitStore /\ [][NextLimiter]_vars

(* Requests whose store call may fail. *)
NextFaults ==
    \/ ReceiveRegister
    \/ ReceiveSignin
    \/ ReceiveGetUsers
    \/ ReceiveGetAllJob
    \/ ReceiveFetchSingleJob
    \/ ReceiveUpdateJob
    \/ ReceiveDeleteJob
    \/ protect
    \/ adminOnly
    \/ postUsers
    \/ signin
    \/ getUsers
    \/ getAllJob
    \/ fetchSingleJob
    \/ updateJob
    \/ deleteJob
    \/ errorHandler
    \/ StoreFault

SpecFaults == InitStore /\ [][NextFaults]_vars

Next ==
    \/ NextAuth
    \/ NextJobs
    \/ NextStore
    \/ NextEdited
    \/ NextFaults
    \/ NextRace
    \/ NextRegistrations
    \/ NextLimiter
    \/ NextChains
    \/ NextMail

Spec == Init /\ [][Next]_vars

---------------------------------------------------------------------------
(* The request in flight has been answered. *)
Answered == pc = <<>> /\ res.status # 0

(* A login that fails for one of the two causes: the email is unknown, or  *)
(* it is known and the password does not match the stored hash.            *)
LoginFails(body) ==
    /\ body.password # Missing
    /\ \/ FindByEmail(body.email) = {}
       \/ \E i \in FindByEmail(body.email) : ~BcryptCompare(body.password, users[i].password)

(* C1: every failing login gets the same response, whether the email is    *)
(* unknown or the password is wrong: the response sent to a failing login  *)
(* is the response every other failing login gets in that state.           *)
C1_LoginFailuresIndistinguishable ==
    (res.by = "signin" /\ LoginFails(req.body)) =>
        \A body \in CredentialBodies :
            LoginFails(body) =>
                /\ SigninOutcome(body).status = res.status
                /\ SigninOutcome(body).body = res.body

(* C2: every account getUsers returns has its password field excluded.     *)
C2_ListingExcludesPassword ==
    res.by = "getUsers" =>
        \A i \in 1..Len(res.body.array) : ~Has(res.body.array[i], "password")

(* The account a token's subject names, as the store holds it now. *)
AccountOf(token) == users[CHOOSE i \in FindById(token.userId) : TRUE]

(* C3: GET /api/users runs protect, then adminOnly, then getUsers: 401     *)
(* without an Authorization header, 403 with a valid token of an account   *)
(* that is not an admin, 200 from getUsers only with an attached admin     *)
(* account; adminOnly never runs, and never passes, without an attached    *)
(* account.                                                                *)
C3_GetUsersChainOrder ==
    req.route = "GET /api/users" =>
        /\ (Answered /\ req.auth = NoAuth) => res.status = 401
        /\ (Answered /\ ProtectOutcome(req.auth).pass /\ AccountOf(req.auth.token).role # "admin")
                => (res.status = 403 /\ res.by = "adminOnly")
        /\ (Running("adminOnly") \/ res.by = "adminOnly") => req.user # NoUser
        /\ res.by = "adminOnly" => (res.status = 403 /\ req.user.role # "admin")
        /\ (Running("getUsers") \/ res.by = "getUsers") =>
                /\ req.user # NoUser
                /\ req.user.role = "admin"
                /\ req.auth.token.sig = SECRET_KEY
                /\ req.user = SelectWithoutPassword(AccountOf(req.auth.token))
        /\ res.status = 200 => res.by = "getUsers"

C3_Witness ==
    /\ req.route = "GET /api/users"
    /\ res.by = "getUsers"
    /\ res.status = 200
    /\ req.user.role = "admin"

JwtErrors == {"jwt must be provided", "jwt malformed", "invalid signature", "jwt expired"}

C5_DuplicateEmailRejected ==
    [][(Running("postUsers") /\ pc' # pc /\ FindByEmail(req.body.email) # {}) =>
            /\ res'.status = 400
            /\ res'.body = [message |-> "User already exist with this email."]
            /\ users' = users]_vars

C5_Witness ==
    /\ res.by = "postUsers"
    /\ res.status = 400
    /\ FindByEmail(req.body.email) # {}
    /\ Len(registered) > 0

(* The answered request is a login with the credentials of registration r. *)
LoginWith(r) ==
    /\ req.route = "POST /api/users/signin"
    /\ Answered
    /\ req.body.email = r.email
    /\ req.body.password = r.password

(* C6: after a registration returned 201, a login with the same email and  *)
(* password succeeds: 200, the success message, and a token signed by the  *)
(* server whose payload holds the account's identifier and email.          *)
C6_RegisterThenLogin ==
    \A k \in 1..Len(registered) :
        LET r == registered[k]
        IN  /\ SigninOutcome([email |-> r.email, password |-> r.password]).status = 200
            /\ LoginWith(r) =>
                /\ res.by = "signin"
                /\ res.status = 200
                /\ res.body.message = "Login Successful"
                /\ res.body.token.sig = SECRET_KEY
                /\ res.body.token.userId = r._id
                /\ res.body.token.email = r.email
                /\ \E i \in 1..Len(users) : users[i]._id = r._id /\ users[i].email = r.email

C6_Witness ==
    /\ \E k \in 1..Len(registered) : LoginWith(registered[k])
    /\ res.status = 200

(* C7: the password field of every stored account is a hash of the         *)
(* password submitted at registration and never that password itself.      *)
C7_PasswordsStoredHashed ==
    /\ \A i \in 1..Len(users) :
        /\ users[i].password \notin Passwords
        /\ Len(users[i].password) = 3
        /\ users[i].password[1] = "$2a$"
    /\ \A k \in 1..Len(registered) :
        \E i \in 1..Len(users) :
            /\ users[i]._id = registered[k]._id
            /\ users[i].password # registered[k].password
            /\ \E salt \in Salts : users[i].password = BcryptHash(registered[k].password, salt)
            /\ \A p \in Passwords :
                BcryptCompare(p, users[i].password) <=> p = registered[k].password

C7_Witness == \E k \in 1..Len(registered) : \E i \in 1..Len(users) : users[i]._id = registered[k]._id

---------------------------------------------------------------------------
(* The job listing *)

(* text contains term, letter case ignored. *)
ContainsIgnoreCase(text, term) ==
    \E start \in 0..(Len(text) - Len(term)) :
        \A k \in 1..Len(term) : Lower(term[k]) = Lower(text[start + k])

(* A job satisfies every filter the query supplies. *)
SatisfiesFilters(query, job) ==
    /\ query.location # "" => (Has(job, "location") /\ job.location = query.location)
    /\ query.search # <<>> => (Has(job, "title") /\ ContainsIgnoreCase(job.title, query.search))

(* C8: the total of a job listing is the number of jobs that match the     *)
(* filter of the page query, not the number of all jobs.                   *)
C8_TotalCountsFilteredJobs ==
    res.by = "getAllJob" =>
        res.body.total =
            Cardinality({i \in 1..Len(jobs) : ListFilterMatches(req.query, jobs[i])})

(* C9: data is the records at positions skip .. skip+limit-1 of the jobs   *)
(* that satisfy every supplied filter, in the requested order (descending  *)
(* creation time when none is requested); so data is no longer than limit. *)
C9_DataIsTheRequestedPage ==
    res.by = "getAllJob" =>
        LET query == req.query
            sortBy == IF query.sort = <<>> THEN <<"-", "createdAt">> ELSE query.sort
            matching == {i \in 1..Len(jobs) : SatisfiesFilters(query, jobs[i])}
            skip == res.body.skip
            limit == res.body.limit
        IN  /\ Len(res.body.data) <= limit
            /\ \E order \in SortedOrders(matching, sortBy) :
                res.body.data =
                    SubSeq([k \in 1..Len(order) |-> jobs[order[k]]],
                           skip + 1, Min(Len(order), skip + limit))

(* The decimal numeral of n, 0 <= n <= 99. *)
Decimal(n) ==
    IF n < 10 THEN <<Digits[n + 1]>> ELSE <<Digits[(n \div 10) + 1], Digits[(n % 10) + 1]>>

Numeral(n) == IF n < 0 THEN <<"-">> \o Decimal(-n) ELSE Decimal(n)

IntegersRead == -20..20

(* s is the numeral of an integer. *)
IsNumeric(s) == \E n \in IntegersRead : s = Numeral(n)

(* s starts with the numeral of n, and no digit follows it. *)
StartsWithNumeral(s, n) ==
    LET numeral == Numeral(n)
    IN  /\ Len(s) >= Len(numeral)
        /\ SubSeq(s, 1, Len(numeral)) = numeral
        /\ Len(s) > Len(numeral) => ~IsDigit(s[Len(numeral) + 1])

(* The parameter as the claim reads it: its value when it is numeric, the  *)
(* default when it is missing or not numeric.                              *)
NumericOrDefault(s, default) ==
    IF IsNumeric(s) THEN CHOOSE n \in IntegersRead : s = Numeral(n) ELSE default

(* The parameter as the code reads it: the integer it starts with, the     *)
(* default when it starts with none or with 0.                             *)
LeadingIntegerOrDefault(s, default) ==
    LET read == {n \in IntegersRead : n # 0 /\ StartsWithNumeral(s, n)}
    IN  IF read = {} THEN default ELSE CHOOSE n \in read : TRUE

ListingHandled == req.route = "GET /api/jobs" /\ res.by \in {"getAllJob", "errorHandler"}

C11_SkipNeverNegative == ListingHandled => ListSkip(req.query) >= 0

(* C12: a listing without a search term puts no constraint on the title:   *)
(* its data is the page of the jobs the location filter alone selects, and *)
(* its total is the total of that location-only query.                     *)
C12_EmptySearchIsNoConstraint ==
    (res.by = "getAllJob" /\ req.query.search = <<>>) =>
        LET query == req.query
            located == {i \in 1..Len(jobs) :
                            query.location # "" =>
                                (Has(jobs[i], "location") /\ jobs[i].location = query.location)}
        IN  /\ \E order \in SortedOrders(located, ListSortBy(query)) :
                    res.body.data =
                        SkipLimit([k \in 1..Len(order) |-> jobs[order[k]]],
                                  res.body.skip, res.body.limit)
            /\ res.body.total =
                    Cardinality({i \in 1..Len(jobs) : CountFilterMatches(query, jobs[i])})

JobRoutes ==
    {"GET /api/jobs", "GET /api/jobs/:id", "PUT /api/jobs/:id", "DELETE /api/jobs/:id",
     "POST /api/jobs"}

JobHandlers ==
    {"getAllJob", "fetchSingleJob", "updateJob", "deleteJob", "validateJobData", "postJob"}

(* C13: the job endpoints need no authentication: a request to one of them *)
(* that carries no Authorization header is answered by the route's own     *)
(* handlers and never with 401.                                            *)
C13_JobRoutesNeedNoToken ==
    (req.route \in JobRoutes /\ req.auth = NoAuth /\ Answered) =>
        /\ res.status # 401
        /\ res.by \in JobHandlers

(* C14: a stored job keeps the createdAt it was inserted with: no step     *)
(* changes the createdAt of a job that is in the store before and after it.*)
C14_CreatedAtNeverChanges ==
    [][\A i \in 1..Len(jobs) : \A j \in 1..Len(jobs') :
            jobs[i]._id = jobs'[j]._id => jobs'[j].createdAt = jobs[i].createdAt]_vars

(* C15: the createdAt of a job that postJob stores is the server's clock   *)
(* at that moment, whatever createdAt the request body carries.            *)
C15_CreatedAtServerAssigned ==
    [][(Running("postJob") /\ Len(jobs') > Len(jobs)) =>
            jobs'[Len(jobs')].createdAt = now]_vars

RoundTripFields == {"title", "company", "location", "salary"}

C17_EveryJobHasTitle ==
    \A i \in 1..Len(jobs) : Has(jobs[i], "title") /\ ~Falsy(jobs[i].title)

(* C18: a POST /api/jobs that has stored the job answers 201, also when    *)
(* sending a notification fails.                                           *)
C18_MailFailureKeeps201 ==
    [][(Running("postJob") /\ Len(jobs') > Len(jobs)) => res'.status = 201]_vars

LacksRequiredField(body) ==
    \/ ~Has(body, "title") \/ Falsy(body.title)
    \/ ~Has(body, "company") \/ body.company = ""

(* C20: a POST /api/jobs whose body lacks title or company is answered 400 *)
(* by the validation step with the message that names the fields, before   *)
(* postJob runs and without any notification.                              *)
C20_MissingFieldRejectedWith400 ==
    (req.route = "POST /api/jobs" /\ LacksRequiredField(req.body) /\ Answered) =>
        /\ res.status = 400
        /\ res.by = "validateJobData"
        /\ res.body = [message |-> "Title or company name is missing"]
        /\ outbox = <<>>

IdHandlers == {"fetchSingleJob", "updateJob", "deleteJob"}

(* C21: GET, PUT and DELETE on /api/jobs/:id answer 404 exactly when the   *)
(* store holds no job with the :id of the request, and then leave the      *)
(* store as it is; a DELETE answered 200 has removed the job, and an id    *)
(* that was handed out and is gone never comes back, so every later        *)
(* request for it is answered 404.                                         *)
C21_NotFoundExactlyWhenAbsent ==
    [][/\ (pc # <<>> /\ Head(pc) \in IdHandlers /\ pc' # pc) =>
            /\ (JobsById(req.id) = {}) <=> (res'.status = 404 /\ pc' = <<>>)
            /\ JobsById(req.id) = {} => jobs' = jobs
            /\ (Head(pc) = "deleteJob" /\ res'.status = 200) =>
                    {i \in 1..Len(jobs') : jobs'[i]._id = req.id} = {}
       /\ \A id \in JobIds :
            (id < nextJobId /\ JobsById(id) = {}) =>
                {i \in 1..Len(jobs') : jobs'[i]._id = id} = {}]_vars

(* C22: a request whose store call failed is answered by the process-wide  *)
(* error handler: its chain never ends without the 500 response.           *)
C22_FaultsAnsweredBy500 ==
    (req.error \in {StoreError, CastError} /\ pc = <<>>) =>
        /\ res.status = 500
        /\ res.by = "errorHandler"

(* The other request in flight has been answered 200 by the handler, for   *)
(* the job this request names.                                             *)
OtherDid(handler) ==
    /\ parked.res.by = handler
    /\ parked.res.status = 200
    /\ parked.req.id = req.id

(* C23: two requests in flight on one job.  An update whose store          *)
(* operation comes after that of a delete answers 404 and leaves the job   *)
(* absent; an update whose store operation comes after that of another     *)
(* update answers 200 as well and leaves the job with the values of its    *)
(* own body (last write wins), the other fields as they were.              *)
C23_RacesOnOneJob ==
    [][(Running("updateJob") /\ pc' # pc /\ parked' = parked) =>
            /\ OtherDid("deleteJob") =>
                /\ res'.status = 404
                /\ JobsById(req.id) = {}
                /\ jobs' = jobs
            /\ (OtherDid("updateJob") /\ JobsById(req.id) # {}) =>
                /\ res'.status = 200
                /\ \A i \in JobsById(req.id) :
                    /\ jobs'[i]._id = req.id
                    /\ \A f \in DOMAIN jobs'[i] :
                        jobs'[i][f] = IF f \in DOMAIN req.body THEN req.body[f] ELSE jobs[i][f]
                    /\ res'.body = jobs'[i]]_vars

C23_Witness ==
    /\ res.by = "updateJob"
    /\ res.status = 200
    /\ req.body = [title |-> Null]
    /\ OtherDid("updateJob")
    /\ parked.req.body = [title |-> <<>>]
    /\ parked.res.body.title = <<>>
    /\ \E i \in JobsById(req.id) : jobs[i].title = Null

(* The response to a login as the request and the store determine it. *)
LoginAnsweredFromStore ==
    LET out == SigninOutcome(req.body)
    IN  IF out.threw
        THEN res = [status |-> 500, by |-> "errorHandler", body |-> out.body]
        ELSE res = [status |-> out.status, by |-> "signin", body |-> out.body]

(* C24 as stated: no in-process state is shared across requests: the       *)
(* response to a request is determined by the request and the store alone, *)
(* however many requests the process has handled before.                   *)
C24_ResponseFromRequestAndStore ==
    (req.route = "POST /api/users/signin" /\ Answered) => LoginAnsweredFromStore

(* C24 amended: the one in-process state shared across requests is the     *)
(* rate limiter's count of the requests in the current window.  A request  *)
(* that makes the count exceed max is answered 429 by the limiter and      *)
(* reaches no route; a request the limiter lets through is answered as the *)
(* request and the store determine.                                        *)
C24_OnlyTheLimiterCounts ==
    (req.route = "POST /api/users/signin" /\ Answered) =>
        /\ hits > LIMITER_MAX => res.by = "limiter"
        /\ res.by = "limiter" =>
                /\ res.status = 429
                /\ res.body = [message |-> "Too many requests, please try again later."]
        /\ res.by # "limiter" => LoginAnsweredFromStore

C24_Witness ==
    /\ res.by = "limiter"
    /\ res.status = 429
    /\ hits = LIMITER_MAX + 1
    /\ SigninOutcome(req.body).status = 200

(* The header has the form `Bearer <token>`. *)
WellFormedBearer(auth) == auth.scheme = "Bearer" /\ auth.token # NoToken

(* C25: a request whose Authorization header is missing or not of the form *)
(* `Bearer <token>` is rejected by protect as unauthorized before the      *)
(* token is verified: no account is attached to it, and its 401 carries no *)
(* error of the verification primitive.                                    *)
C25_MalformedHeaderNotVerified ==
    (req.route = "GET /api/users" /\ ~WellFormedBearer(req.auth)) =>
        /\ req.user = NoUser
        /\ res.status # 0 =>
            /\ res.by = "protect"
            /\ res.status = 401
            /\ ~Has(res.body, "error")

(* C26: the account store never holds two accounts with one email, also    *)
(* when two registrations with the same unused email are in flight at the  *)
(* same time.                                                              *)
C26_EmailsStayUnique ==
    \A i, j \in 1..Len(users) : i # j => users[i].email # users[j].email

(* C27: every stored account has one of the enumerated roles, and an       *)
(* account created by registration has the default role, employee,         *)
(* whatever role its request body asked for; so as long as the store holds *)
(* no admin account, no GET /api/users has been answered by getUsers.      *)
C27_RegistrationNeverElevates ==
    /\ \A i \in 1..Len(users) : users[i].role \in Roles
    /\ \A k \in 1..Len(registered) :
        \A i \in 1..Len(users) :
            users[i]._id = registered[k]._id => users[i].role = "employee"
    /\ (\A i \in 1..Len(users) : users[i].role # "admin") =>
            /\ res.by # "getUsers"
            /\ ~Running("getUsers")
            /\ (req.route = "GET /api/users" /\ Answered) => res.status \in {401, 403}

C27_Witness ==
    /\ \A i \in 1..Len(users) : users[i].role # "admin"
    /\ req.route = "GET /api/users"
    /\ res.by = "adminOnly"
    /\ res.status = 403
    /\ \E k \in 1..Len(registered) :
        /\ registered[k]._id = req.user._id
        /\ Has(registered[k].body, "role")
        /\ registered[k].body.role = "admin"

(* C28: a POST /api/jobs that is answered 400, by the validation step or   *)
(* by postJob, has not changed the job collection.                         *)
C28_ErrorLeavesJobsUnchanged ==
    [][(req.route = "POST /api/jobs" /\ pc # <<>> /\ pc' = <<>> /\ res'.status = 400) =>
            jobs' = jobs]_vars

Gates == {"protect", "adminOnly", "validateJobData"}

(* C29: a step of protect, adminOnly or validateJobData either sends the   *)
(* response, and then nothing of the chain runs after it, or hands the     *)
(* request on (next, or next(error)) without sending anything; whichever   *)
(* handler sends a response is the one running, it sends the first         *)
(* response of the request and ends the chain with it; a response, once    *)
(* sent, stays the response until the next request arrives; after a        *)
(* rejection by protect, adminOnly or validateJobData no controller runs.  *)
C29_RespondOrNextNeverBoth ==
    [][/\ (pc # <<>> /\ pc' # pc /\ Head(pc) \in Gates) =>
            \/ /\ res'.status # 0
               /\ pc' = <<>>
            \/ /\ res' = res
               /\ pc' \in {Tail(pc), <<"errorHandler">>}
       /\ (res' # res /\ res'.status # 0) =>
            /\ pc # <<>>
            /\ res.status = 0
            /\ res'.by = Head(pc)
            /\ pc' = <<>>
       /\ (res.status # 0 /\ res' # res) => (pc = <<>> /\ res' = NoRes)
       /\ res.by \in Gates => (pc = <<>> /\ (pc' # <<>> => res' = NoRes))]_vars

C29_Witness ==
    /\ req.route = "POST /api/jobs"
    /\ res.by = "validateJobData"
    /\ res.status = 400
    /\ req.user # NoUser
    /\ pc = <<>>
    /\ jobs = <<>>

=============================================================================
